---- MODULE Spec2Model ----
(***************************************************************************)
(* Model of the A*-style branch-and-bound path search of                   *)
(* src/tsp/c_extension/astar.c: the array-backed binary min-heap           *)
(* (push_node / pop_node / sift_up / sift_down), node creation, the        *)
(* heuristic, node expansion and the main loop of solve_astar.             *)
(*                                                                         *)
(* C arrays are 0-based; they are modelled as sequences, element i of the  *)
(* C array being element i+1 of the sequence.  Doubles are modelled by     *)
(* naturals; DBL_MAX is a number larger than every sum the model can form, *)
(* and the IEEE infinity of the input matrix is a number above DBL_MAX.    *)
(***************************************************************************)
EXTENDS Integers, Sequences, FiniteSets

VARIABLES
    cost_matrix,   \* argument: the numpy array, a sequence of rows
    n_vertices,    \* argument
    start_idx,     \* argument
    end_idx,       \* argument
    garbage,       \* what malloc'ed, never written int cells of best_path hold
    pc,            \* position in solve_astar (or "pq" in the queue-only spec)
    allocated,     \* AStarState, graph and open list have been malloc'ed
    costs,         \* state->graph->costs
    best_cost,     \* state->best_cost
    best_path,     \* state->best_path
    open_list,     \* state->open_list: [nodes, size, capacity]
    iterations,    \* the loop counter of solve_astar
    current,       \* the node pop_node last returned (NULL: none)
    result,        \* what solve_astar returns: [path, cost]
    best_node,     \* history: the node that last set best_cost (NULL: none)
    pushed,        \* history: number of push_node calls so far
    popped,        \* history: number of nodes pop_node has returned
    created,       \* history: the nodes create_node has allocated
    destroyed,     \* history: the nodes free_node was called on, in order
    calls,         \* history: number of calls made in the queue-only spec
    last_call,     \* history: the last call of the queue-only spec
    returned       \* history: the nodes pop_node returned in the queue-only spec

vars == << cost_matrix, n_vertices, start_idx, end_idx, garbage, pc, allocated,
           costs, best_cost, best_path, open_list, iterations, current, result,
           best_node, pushed, popped, created, destroyed, calls, last_call,
           returned >>

hist == << calls, last_call, returned >>

heap_hist == << created, destroyed >>

args == << cost_matrix, n_vertices, start_idx, end_idx, garbage >>

----------------------------------------------------------------------------
(* Bounds of the model *)

\* largest finite edge cost of the enumerated 1..3-vertex matrices
MaxCost == 1

\* the iteration budget: MAX_ITERATIONS of astar.c:16 is 150000; the model
\* runs the same loop with a budget small graphs can exhaust
MAX_ITERATIONS == 6

\* number of queue operations in the queue-only specification
MaxCalls == 6

\* cap on the iterations of the loop run without its budget
MaxSteps == 20

----------------------------------------------------------------------------
(* Program constants *)

\* <float.h>: the "no edge" / "no solution" sentinel
DBL_MAX == 1000

\* astar.c:10 (overrides the 4096 of astar.h:9, which is included first)
INITIAL_QUEUE_CAPACITY == 1024

\* IEEE +infinity of the caller's matrix: isinf() holds of it alone
Inf == DBL_MAX + 1

isinf(x) == x = Inf

NULL == [null |-> TRUE]

----------------------------------------------------------------------------
(* Priority queue: astar.c:18-90 *)

create_priority_queue(capacity) ==
    [nodes |-> << >>, size |-> 0, capacity |-> capacity]

swap_nodes(nodes, a, b) ==
    [nodes EXCEPT ![a + 1] = nodes[b + 1], ![b + 1] = nodes[a + 1]]

\* faulty variant: the new element is swapped with its parent at most once
sift_up_Once(queue, idx) ==
    IF idx > 0
    THEN LET parent == (idx - 1) \div 2 IN
         IF queue.nodes[idx + 1].f_cost < queue.nodes[parent + 1].f_cost
         THEN [queue EXCEPT !.nodes = swap_nodes(@, idx, parent)]
         ELSE queue
    ELSE queue

RECURSIVE sift_up(_, _)
sift_up(queue, idx) ==
    IF idx > 0
    THEN LET parent == (idx - 1) \div 2 IN
         IF queue.nodes[idx + 1].f_cost < queue.nodes[parent + 1].f_cost
         THEN sift_up([queue EXCEPT !.nodes = swap_nodes(@, idx, parent)], parent)
         ELSE queue
    ELSE queue

RECURSIVE sift_down_LeftOnly(_, _)
\* faulty variant: the right child is never looked at
sift_down_LeftOnly(queue, idx) ==
    LET left     == 2 * idx + 1
        smallest == IF left < queue.size
                       /\ queue.nodes[left + 1].f_cost < queue.nodes[idx + 1].f_cost
                    THEN left ELSE idx
    IN  IF smallest = idx
        THEN queue
        ELSE sift_down_LeftOnly([queue EXCEPT !.nodes = swap_nodes(@, idx, smallest)],
                                smallest)

RECURSIVE sift_down(_, _)
sift_down(queue, idx) ==
    LET left  == 2 * idx + 1
        right == 2 * idx + 2
        s1 == IF left < queue.size
                 /\ queue.nodes[left + 1].f_cost < queue.nodes[idx + 1].f_cost
              THEN left ELSE idx
        smallest == IF right < queue.size
                       /\ queue.nodes[right + 1].f_cost < queue.nodes[s1 + 1].f_cost
                    THEN right ELSE s1
    IN  IF smallest = idx
        THEN queue
        ELSE sift_down([queue EXCEPT !.nodes = swap_nodes(@, idx, smallest)], smallest)

\* nodes[i] = v on the backing array: slots past the highest one ever written
\* are uninitialised memory and are not represented
StoreAt(nodes, i, v) ==
    IF i + 1 > Len(nodes) THEN Append(nodes, v) ELSE [nodes EXCEPT ![i + 1] = v]

push_node(queue, node) ==
    LET grown  == IF queue.size = queue.capacity
                  THEN [queue EXCEPT !.capacity = @ * 2]
                  ELSE queue
        stored == [grown EXCEPT !.nodes = StoreAt(@, grown.size, node)]
        sifted == sift_up(stored, stored.size)
    IN  [sifted EXCEPT !.size = @ + 1]

\* faulty variant: the last element is not moved to the root (line 86 left
\* out), so the returned node stays in the heap and the last one is dropped
pop_node_KeepRoot(queue) ==
    IF queue.size = 0
    THEN [queue |-> queue, result |-> NULL]
    ELSE LET res    == queue.nodes[1]
             shrunk == [queue EXCEPT !.size = @ - 1]
         IN  IF shrunk.size > 0
             THEN [queue |-> sift_down(shrunk, 0), result |-> res]
             ELSE [queue |-> shrunk, result |-> res]

\* returns the queue after the call and the returned pointer
pop_node(queue) ==
    IF queue.size = 0
    THEN [queue |-> queue, result |-> NULL]
    ELSE LET res    == queue.nodes[1]
             shrunk == [queue EXCEPT !.size = @ - 1]
         IN  IF shrunk.size > 0
             THEN [queue  |-> sift_down([shrunk EXCEPT
                                 !.nodes = [@ EXCEPT ![1] = shrunk.nodes[shrunk.size + 1]]], 0),
                   result |-> res]
             ELSE [queue |-> shrunk, result |-> res]

\* the elements of the heap, positions 0..size-1 of the backing array
Heap(queue) == {queue.nodes[i] : i \in 1..queue.size}

Range(seq) == {seq[i] : i \in 1..Len(seq)}

----------------------------------------------------------------------------
(* Search nodes, heuristic, expansion: astar.c:92-172 *)

create_node(path, path_length, g_cost, h_cost) ==
    [path        |-> SubSeq(path, 1, path_length),
     path_length |-> path_length,
     g_cost      |-> g_cost,
     h_cost      |-> h_cost,
     f_cost      |-> g_cost + h_cost]

LastVertex(node) == node.path[node.path_length]

\* faulty variant: the goal test compares the last index, not the last vertex
is_goal_Index(node, end) == node.path_length - 1 = end

is_goal(node, end) == LastVertex(node) = end

RECURSIVE MinFrom(_, _, _, _)
\* the loop of astar.c:120-124 from index i on, h being the minimum so far
MinFrom(row, n, i, h) ==
    IF i >= n THEN h
    ELSE MinFrom(row, n, i + 1, IF row[i] < h THEN row[i] ELSE h)

calculate_heuristic(cst, n, end, node) ==
    LET cur == LastVertex(node)
        h   == cst[cur][end]
    IN  IF h = DBL_MAX THEN MinFrom(cst[cur], n, 0, DBL_MAX) ELSE h

\* faulty variant: the child's g is the edge cost alone, the parent's g is dropped
ChildNode_NoAccumulate(cst, n, end, node, next) ==
    LET new_g_cost == cst[LastVertex(node)][next]
        new_path   == Append(node.path, next)
        new_node   == create_node(new_path, node.path_length + 1, new_g_cost, 0)
    IN  [new_node EXCEPT !.h_cost = calculate_heuristic(cst, n, end, new_node)]

\* the node expand_node builds for the neighbour next: create_node is given
\* h = 0 and computes f_cost from it; h_cost alone is assigned afterwards
ChildNode(cst, n, end, node, next) ==
    LET new_g_cost == node.g_cost + cst[LastVertex(node)][next]
        new_path   == Append(node.path, next)
        new_node   == create_node(new_path, node.path_length + 1, new_g_cost, 0)
    IN  [new_node EXCEPT !.h_cost = calculate_heuristic(cst, n, end, new_node)]

\* faulty variant: a candidate that only equals the bound is kept
Survives_LessEq(new_node, bound) == new_node.f_cost <= bound

\* faulty variant: the visited marks are never set
Visited_Never(node, v) == FALSE

Visited(node, v) == \E i \in 1..node.path_length : node.path[i] = v

\* the branch-and-bound test of astar.c:161
Survives(new_node, bound) == new_node.f_cost < bound

RECURSIVE ExpandFrom(_, _, _, _, _, _, _)
\* the loop of astar.c:148-169 from neighbour next on
ExpandFrom(cst, n, end, bound, node, next, queue) ==
    IF next >= n THEN queue
    ELSE IF ~Visited(node, next) /\ cst[LastVertex(node)][next] # DBL_MAX
         THEN LET new_node == ChildNode(cst, n, end, node, next) IN
              ExpandFrom(cst, n, end, bound, node, next + 1,
                         IF Survives(new_node, bound)
                         THEN push_node(queue, new_node)
                         ELSE queue)
         ELSE ExpandFrom(cst, n, end, bound, node, next + 1, queue)

RECURSIVE CandidatesFrom(_, _, _, _, _)
\* the nodes create_node allocates in the loop of astar.c:148-169 from
\* neighbour next on, in order
CandidatesFrom(cst, n, end, node, next) ==
    IF next >= n THEN << >>
    ELSE IF ~Visited(node, next) /\ cst[LastVertex(node)][next] # DBL_MAX
         THEN << ChildNode(cst, n, end, node, next) >>
                  \o CandidatesFrom(cst, n, end, node, next + 1)
         ELSE CandidatesFrom(cst, n, end, node, next + 1)

\* the nodes one call of expand_node allocates: none for a goal node (130-137)
ExpandCreated(cst, n, end, node) ==
    IF is_goal(node, end) THEN << >> ELSE CandidatesFrom(cst, n, end, node, 0)

\* the nodes one call of expand_node frees: the candidates it does not push
\* (astar.c:163-165)
ExpandFreed(cst, n, end, bound, node) ==
    SelectSeq(ExpandCreated(cst, n, end, node), LAMBDA c : ~Survives(c, bound))

\* faulty variant: the copy is one element short
CopyPath_Short(bp, node) ==
    [i \in 1..Len(bp) |-> IF i < node.path_length THEN node.path[i] ELSE bp[i]]

\* memcpy(state->best_path, node->path, node->path_length * sizeof(int))
CopyPath(bp, node) ==
    [i \in 1..Len(bp) |-> IF i <= node.path_length THEN node.path[i] ELSE bp[i]]

\* faulty variant: every goal node overwrites the bound
Improves_Always(node, bound) == TRUE

\* a goal node improves the bound when it is strictly cheaper
Improves(node, bound) == node.g_cost < bound

\* expand_node on the search state st = [best_cost, best_path, open_list]
expand_node(cst, n, end, st, node) ==
    IF is_goal(node, end)
    THEN IF Improves(node, st.best_cost)
         THEN [st EXCEPT !.best_cost = node.g_cost,
                         !.best_path = CopyPath(@, node)]
         ELSE st
    ELSE [st EXCEPT !.open_list =
              ExpandFrom(cst, n, end, st.best_cost, node, 0, st.open_list)]

----------------------------------------------------------------------------
(* solve_astar: astar.c:174-256 *)

Rows(m) == Len(m)
Cols(m) == IF Len(m) = 0 THEN 0 ELSE Len(m[1])

\* *(double*)PyArray_GETPTR2(cost_matrix, i, j)
GETPTR2(m, i, j) == m[i + 1][j + 1]

\* faulty variant: a missing edge is stored as a free edge
BuildCosts_InfAsZero(m, n) ==
    [i \in 0..(n - 1) |->
        [j \in 0..(n - 1) |->
            LET cost == GETPTR2(m, i, j) IN IF isinf(cost) THEN 0 ELSE cost]]

\* astar.c:196-202
BuildCosts(m, n) ==
    [i \in 0..(n - 1) |->
        [j \in 0..(n - 1) |->
            LET cost == GETPTR2(m, i, j) IN IF isinf(cost) THEN DBL_MAX ELSE cost]]

\* the accesses of the set-up stay inside the matrix and the cost rows
InBounds ==
    /\ n_vertices <= Rows(cost_matrix)
    /\ n_vertices <= Cols(cost_matrix)
    /\ start_idx \in 0..(n_vertices - 1)
    /\ end_idx \in 0..(n_vertices - 1)

\* astar.c:183-210: the search state before the main loop
SetupState(m, n, start, end, fill) ==
    LET cst        == BuildCosts(m, n)
        node0      == create_node(<< start >>, 1, 0, 0)
        start_node == [node0 EXCEPT !.h_cost = calculate_heuristic(cst, n, end, node0)]
    IN  [best_cost  |-> DBL_MAX,
         best_path  |-> [i \in 1..n |-> fill],
         open_list  |-> push_node(create_priority_queue(INITIAL_QUEUE_CAPACITY),
                                  start_node),
         iterations |-> 0]

\* astar.c:183-210 on arguments whose accesses are all in bounds
Setup ==
    /\ pc = "call"
    /\ InBounds
    /\ LET st == SetupState(cost_matrix, n_vertices, start_idx, end_idx, garbage)
       IN  /\ best_cost' = st.best_cost
           /\ best_path' = st.best_path
           /\ open_list' = st.open_list
           /\ iterations' = st.iterations
    /\ costs' = BuildCosts(cost_matrix, n_vertices)
    /\ allocated' = TRUE
    /\ pushed' = 1
    /\ created' = Heap(open_list')
    /\ pc' = "loop"
    /\ UNCHANGED << args, current, result, best_node, popped, destroyed, hist >>

\* astar.c:183-210 on arguments that take an access out of bounds: the state
\* and the open list are allocated (184-190), then the matrix (199) or the
\* cost rows (116, reached from 208) are read outside their storage.  The
\* behaviour from there on is undefined: pc = "undefined" stands for every
\* outcome, and nothing is asserted of it.
SetupOutOfBounds ==
    /\ pc = "call"
    /\ ~InBounds
    /\ allocated' = TRUE
    /\ best_cost' = DBL_MAX
    /\ best_path' = [i \in 1..n_vertices |-> garbage]
    /\ open_list' = create_priority_queue(INITIAL_QUEUE_CAPACITY)
    /\ pc' = "undefined"
    /\ UNCHANGED << args, costs, iterations, current, result, best_node, pushed,
                    popped, heap_hist, hist >>

\* faulty variant: the loop runs once more when the counter is at its maximum
LoopCondition_OneMore(st) == st.open_list.size > 0 /\ st.iterations <= MAX_ITERATIONS

\* the loop test of astar.c:214 on st = [best_cost, best_path, open_list, iterations]
LoopCondition(st) == st.open_list.size > 0 /\ st.iterations < MAX_ITERATIONS

\* the body of the main loop, astar.c:215-220: the state after it and the
\* node it popped
LoopBody(cst, n, end, st) ==
    LET ret == pop_node(st.open_list)
        after  == expand_node(cst, n, end, [st EXCEPT !.open_list = ret.queue],
                              ret.result)
    IN  [state   |-> [after EXCEPT !.iterations = @ + 1],
         current |-> ret.result,
         pushed  |-> after.open_list.size - ret.queue.size,
         created |-> ExpandCreated(cst, n, end, ret.result),
         \* the pruned candidates (164), then the expanded node (219)
         freed   |-> ExpandFreed(cst, n, end, st.best_cost, ret.result)
                        \o << ret.result >>]

SearchState ==
    [best_cost |-> best_cost, best_path |-> best_path,
     open_list |-> open_list, iterations |-> iterations]

\* one iteration of the main loop, astar.c:214-221
Iterate ==
    /\ pc = "loop"
    /\ LoopCondition(SearchState)
    /\ LET body == LoopBody(costs, n_vertices, end_idx, SearchState)
       IN  /\ current' = body.current
           /\ best_cost' = body.state.best_cost
           /\ best_path' = body.state.best_path
           /\ open_list' = body.state.open_list
           /\ iterations' = body.state.iterations
           /\ best_node' = IF body.state.best_cost # best_cost
                           THEN body.current ELSE best_node
           /\ pushed' = pushed + body.pushed
           /\ created' = created \cup Range(body.created)
           /\ destroyed' = destroyed \o body.freed
    /\ popped' = popped + 1
    /\ UNCHANGED << args, pc, allocated, costs, result, hist >>

RECURSIVE MainLoop(_, _, _, _)
\* the main loop run to its end, astar.c:214-221
MainLoop(cst, n, end, st) ==
    IF LoopCondition(st) THEN MainLoop(cst, n, end, LoopBody(cst, n, end, st).state) ELSE st

RECURSIVE FirstIndexOf(_, _, _, _)
\* the scan of astar.c:226-232: i + 1 for the first i < n with bp[i] = v, else 0
FirstIndexOf(bp, n, v, i) ==
    IF i >= n THEN 0
    ELSE IF bp[i + 1] = v THEN i + 1 ELSE FirstIndexOf(bp, n, v, i + 1)

\* astar.c:223-242
BuildResult(bc, bp, n, end) ==
    IF bc < DBL_MAX
    THEN [path |-> SubSeq(bp, 1, FirstIndexOf(bp, n, end, 0)), cost |-> bc]
    ELSE [path |-> << >>, cost |-> bc]

\* solve_astar as a function of its arguments (all accesses in bounds): what
\* it returns, and the open list size and the counter the loop ended with
solve_astar(m, n, start, end, fill) ==
    LET final == MainLoop(BuildCosts(m, n), n, end, SetupState(m, n, start, end, fill))
    IN  [result     |-> BuildResult(final.best_cost, final.best_path, n, end),
         open_size  |-> final.open_list.size,
         iterations |-> final.iterations]

\* faulty variant: every slot ever written is freed, not the first size ones
free_priority_queue_AllSlots(queue) == queue.nodes

\* free_priority_queue, astar.c:26-32: the nodes it calls free_node on, in order
free_priority_queue(queue) == SubSeq(queue.nodes, 1, queue.size)

\* the loop has ended: astar.c:223-255
Return ==
    /\ pc = "loop"
    /\ ~LoopCondition(SearchState)
    /\ result' = BuildResult(best_cost, best_path, n_vertices, end_idx)
    /\ destroyed' = destroyed \o free_priority_queue(open_list)
    /\ pc' = "done"
    /\ UNCHANGED << args, allocated, costs, best_cost, best_path, open_list,
                    iterations, current, best_node, pushed, popped, created, hist >>

----------------------------------------------------------------------------
(* The calls the model makes *)

CostVals == (0..MaxCost) \cup {Inf}

Vertices(n) == 0..(n - 1)

\* every n x n matrix with a zero diagonal and entries of CostVals
SquareMatrices(n) ==
    LET Off == {p \in Vertices(n) \X Vertices(n) : p[1] # p[2]}
    IN  { [i \in 1..n |-> [j \in 1..n |-> IF i = j THEN 0 ELSE f[<< i - 1, j - 1 >>]]] :
            f \in [Off -> CostVals] }

\* the matrix of the documented scenario
Scenario ==
    << << 0, 1, 4, Inf >>,
       << 1, 0, 1, 5 >>,
       << 4, 1, 0, 1 >>,
       << Inf, 5, 1, 0 >> >>

\* 4-vertex matrices: edges among 0..2 cost a, edges into 3 cost b, out of 3 cost c
Family4(a, b, c) ==
    [i \in 1..4 |-> [j \in 1..4 |->
        IF i = j THEN 0 ELSE IF j = 4 THEN b ELSE IF i = 4 THEN c ELSE a]]

Weights4 == {1, 2, 5, Inf}

\* 4-vertex matrices: a two-way chain 0 - 1 - 2 - 3 of edges of cost a, and a
\* direct edge 0 -> 3 of cost d
Chain4(a, d) ==
    [i \in 1..4 |-> [j \in 1..4 |->
        IF i = j THEN 0
        ELSE IF i - j \in {-1, 1} THEN a
        ELSE IF i = 1 /\ j = 4 THEN d ELSE Inf]]

Matrices4 ==
    {Scenario}
    \cup {Family4(a, b, c) : a \in {1, 2}, b \in Weights4, c \in {1, Inf}}
    \cup {Chain4(a, d) : a \in {1, 2}, d \in {3, 7, Inf}}

\* 3-vertex matrices without self-loops: an infinite diagonal, every other
\* entry 1 or infinite
InfDiagonal3 ==
    { [i \in 1..3 |-> [j \in 1..3 |-> IF i = j THEN Inf ELSE f[<< i - 1, j - 1 >>]]] :
        f \in [{p \in Vertices(3) \X Vertices(3) : p[1] # p[2]} -> {1, Inf}] }

\* the matrices of the calls with n vertices
Matrices(n) ==
    IF n = 4 THEN Matrices4
    ELSE IF n = 3 THEN SquareMatrices(3) \cup InfDiagonal3
    ELSE SquareMatrices(n)

NoState ==
    /\ pc = "call"
    /\ allocated = FALSE
    /\ costs = << >>
    /\ best_cost = DBL_MAX
    /\ best_path = << >>
    /\ open_list = create_priority_queue(0)
    /\ iterations = 0
    /\ current = NULL
    /\ result = NULL
    /\ best_node = NULL
    /\ pushed = 0
    /\ popped = 0
    /\ created = {}
    /\ destroyed = << >>
    /\ calls = 0
    /\ last_call = "none"
    /\ returned = << >>

\* calls that satisfy the documented input contract
Init ==
    /\ \E n \in 1..4 :
          /\ n_vertices = n
          /\ cost_matrix \in Matrices(n)
          /\ start_idx \in Vertices(n)
          /\ end_idx \in Vertices(n)
    /\ garbage \in {-1, end_idx}
    /\ NoState

Next == Setup \/ Iterate \/ Return

Spec == Init /\ [][Next]_vars

\* r x c matrices with a zero diagonal and every other entry w
Uniform(r, c, w) == [i \in 1..r |-> [j \in 1..c |-> IF i = j THEN 0 ELSE w]]

\* any call the Python wrapper accepts: PyArg_ParseTuple (astar.c:180) checks
\* that the first argument is an array and the others are ints, nothing more
InitAny ==
    /\ n_vertices \in 1..3
    /\ cost_matrix \in {Uniform(r, c, w) : r \in 1..3, c \in 1..3, w \in {1, Inf}}
    /\ start_idx \in -1..n_vertices
    /\ end_idx \in -1..n_vertices
    /\ garbage \in {-1, end_idx}
    /\ NoState

NextAny == Setup \/ SetupOutOfBounds \/ Iterate \/ Return

SpecAny == InitAny /\ [][NextAny]_vars

----------------------------------------------------------------------------
(* The search with and without its iteration budget, under fairness *)

\* astar.c:183-210, entering the loop that is run without the budget
SetupNoBudget ==
    /\ pc = "call"
    /\ InBounds
    /\ LET st == SetupState(cost_matrix, n_vertices, start_idx, end_idx, garbage)
       IN  /\ best_cost' = st.best_cost
           /\ best_path' = st.best_path
           /\ open_list' = st.open_list
           /\ iterations' = st.iterations
    /\ costs' = BuildCosts(cost_matrix, n_vertices)
    /\ allocated' = TRUE
    /\ pushed' = 1
    /\ created' = Heap(open_list')
    /\ pc' = "loop_nb"
    /\ UNCHANGED << args, current, result, best_node, popped, destroyed, hist >>

\* one iteration of the main loop with the test iterations < MAX_ITERATIONS
\* of astar.c:214 left out: the loop body of astar.c:215-220 as long as the
\* open list is not empty
IterateNoBudget ==
    /\ pc = "loop_nb"
    /\ open_list.size > 0
    /\ iterations < MaxSteps
    /\ LET body == LoopBody(costs, n_vertices, end_idx, SearchState)
       IN  /\ current' = body.current
           /\ best_cost' = body.state.best_cost
           /\ best_path' = body.state.best_path
           /\ open_list' = body.state.open_list
           /\ iterations' = body.state.iterations
           /\ best_node' = IF body.state.best_cost # best_cost
                           THEN body.current ELSE best_node
           /\ pushed' = pushed + body.pushed
           /\ created' = created \cup Range(body.created)
           /\ destroyed' = destroyed \o body.freed
    /\ popped' = popped + 1
    /\ UNCHANGED << args, pc, allocated, costs, result, hist >>

\* n x n matrices with a zero diagonal, every other entry 1 or infinite
UnitMatrices(n) ==
    LET Off == {p \in Vertices(n) \X Vertices(n) : p[1] # p[2]}
    IN  { [i \in 1..n |-> [j \in 1..n |-> IF i = j THEN 0 ELSE f[<< i - 1, j - 1 >>]]] :
            f \in [Off -> {1, Inf}] }

InitLive ==
    /\ \E n \in 1..4 :
          /\ n_vertices = n
          /\ cost_matrix \in (IF n = 4 THEN Matrices4 ELSE UnitMatrices(n))
          /\ start_idx \in Vertices(n)
          /\ end_idx \in Vertices(n)
    /\ garbage = -1
    /\ NoState

NextLive == Setup \/ Iterate \/ Return \/ SetupNoBudget \/ IterateNoBudget

\* Iterate and IterateNoBudget are their guards followed by assignments, so
\* each is enabled exactly when its guard holds, and each is the only step
\* that changes the counter: these two actions are Iterate and
\* IterateNoBudget as far as enabledness and the counter go
IterateTick ==
    /\ pc = "loop"
    /\ LoopCondition(SearchState)
    /\ iterations' = iterations + 1

IterateNoBudgetTick ==
    /\ pc = "loop_nb"
    /\ open_list.size > 0
    /\ iterations < MaxSteps
    /\ iterations' = iterations + 1

\* solve_astar runs on one thread and blocks its caller until it returns:
\* the set-up, an iteration whose loop test holds, and the return after the
\* loop are each carried out once they can be
SpecLive ==
    /\ InitLive /\ [][NextLive]_vars
    /\ WF_vars(Setup \/ SetupNoBudget)
    /\ WF_iterations(IterateTick)
    /\ WF_iterations(IterateNoBudgetTick)
    /\ WF_vars(Return)

----------------------------------------------------------------------------
(* The priority queue on its own: any sequence of push_node and pop_node *)

PQKeys == 0..2

InitPQ ==
    /\ pc = "pq"
    /\ open_list \in {create_priority_queue(c) : c \in 1..2}
    /\ cost_matrix = << >>
    /\ n_vertices = 0
    /\ start_idx = 0
    /\ end_idx = 0
    /\ garbage = -1
    /\ allocated = TRUE
    /\ costs = << >>
    /\ best_cost = DBL_MAX
    /\ best_path = << >>
    /\ iterations = 0
    /\ current = NULL
    /\ result = NULL
    /\ best_node = NULL
    /\ pushed = 0
    /\ popped = 0
    /\ created = {}
    /\ destroyed = << >>
    /\ calls = 0
    /\ last_call = "none"
    /\ returned = << >>

\* push_node(queue, create_node(...)): the node's path holds the number of
\* the call, so that no two nodes are equal
PushCall ==
    /\ pc = "pq"
    /\ calls < MaxCalls
    /\ \E g \in PQKeys :
          LET node == create_node(<< calls >>, 1, g, 0)
          IN  /\ open_list' = push_node(open_list, node)
              /\ created' = created \cup {node}
    /\ pushed' = pushed + 1
    /\ calls' = calls + 1
    /\ last_call' = "push"
    /\ UNCHANGED << args, pc, allocated, costs, best_cost, best_path, iterations,
                    current, result, best_node, popped, destroyed, returned >>

\* current = pop_node(queue)
PopCall ==
    /\ pc = "pq"
    /\ calls < MaxCalls
    /\ LET ret == pop_node(open_list)
       IN  /\ open_list' = ret.queue
           /\ current' = ret.result
           /\ popped' = IF ret.result = NULL THEN popped ELSE popped + 1
           /\ returned' = IF ret.result = NULL THEN returned
                          ELSE Append(returned, ret.result)
    /\ calls' = calls + 1
    /\ last_call' = "pop"
    /\ UNCHANGED << args, pc, allocated, costs, best_cost, best_path, iterations,
                    result, best_node, pushed, heap_hist >>

NextPQ == PushCall \/ PopCall

SpecPQ == InitPQ /\ [][NextPQ]_vars

----------------------------------------------------------------------------
(* Reference definitions for the properties *)

Min(S) == CHOOSE x \in S : \A y \in S : x <= y

\* one round of Bellman-Ford relaxation over the caller's matrix; Inf is
\* "no edge" and "unreachable"
Relax(m, n, d) ==
    [v \in Vertices(n) |->
        Min({d[v]} \cup {d[u] + GETPTR2(m, u, v) :
                           u \in {w \in Vertices(n) : d[w] # Inf /\ ~isinf(GETPTR2(m, w, v))}})]

RECURSIVE RelaxRounds(_, _, _, _)
RelaxRounds(m, n, d, k) == IF k = 0 THEN d ELSE RelaxRounds(m, n, Relax(m, n, d), k - 1)

\* the true minimum cost of a path s -> e in matrix m (Inf: there is none)
ShortestCost(m, n, s, e) ==
    RelaxRounds(m, n, [v \in Vertices(n) |-> IF v = s THEN 0 ELSE Inf], n)[e]

\* the summed edge costs of a path, in the caller's matrix
RECURSIVE PathCost(_, _)
PathCost(m, path) ==
    IF Len(path) <= 1 THEN 0
    ELSE GETPTR2(m, path[1], path[2]) + PathCost(m, Tail(path))

\* the heuristic never overestimates the true remaining cost
Admissible ==
    \A v \in Vertices(n_vertices) :
        LET h == calculate_heuristic(BuildCosts(cost_matrix, n_vertices), n_vertices,
                                     end_idx, create_node(<< v >>, 1, 0, 0))
        IN  h <= ShortestCost(cost_matrix, n_vertices, v, end_idx)

\* every pair of distinct vertices has a direct finite edge
Complete ==
    \A u, v \in Vertices(n_vertices) : u # v => ~isinf(GETPTR2(cost_matrix, u, v))

Exhausted == pc = "done" /\ open_list.size = 0
BudgetHit == pc = "done" /\ open_list.size > 0 /\ iterations = MAX_ITERATIONS

NoSolution == [path |-> << >>, cost |-> DBL_MAX]

----------------------------------------------------------------------------
(* Properties *)

\* C1: on a graph whose heuristic never overestimates, a search that ends
\* because the open list became empty returns the true minimum cost of a
\* start-to-end path, as computed by Bellman-Ford over the same matrix.
C1_OptimalOnExhaustion ==
    (Exhausted /\ (Admissible \/ Complete)
        /\ ShortestCost(cost_matrix, n_vertices, start_idx, end_idx) # Inf)
    => result.cost = ShortestCost(cost_matrix, n_vertices, start_idx, end_idx)

\* an exhausted search on an admissible graph whose optimum is a 3-edge path
C1_Witness ==
    /\ Exhausted /\ Admissible
    /\ Len(result.path) = 4
    /\ iterations >= 4
    /\ result.cost = ShortestCost(cost_matrix, n_vertices, start_idx, end_idx)

\* C2: on the documented 4-vertex matrix with start 0 and end 3 the search
\* returns the path [0,1,2,3] with cost 3.
C2_Scenario ==
    (pc = "done" /\ cost_matrix = Scenario /\ n_vertices = 4
        /\ start_idx = 0 /\ end_idx = 3)
    => result = [path |-> << 0, 1, 2, 3 >>, cost |-> 3]

C2_Witness ==
    /\ pc = "done" /\ cost_matrix = Scenario /\ n_vertices = 4
    /\ start_idx = 0 /\ end_idx = 3
    /\ result.cost = 3

\* C3: whichever condition ends the loop, a finite best_cost yields the path
\* of the goal node that last set best_cost, from start to end, whose summed
\* edge costs are the returned cost; otherwise the result is the empty path
\* with the no-solution sentinel.
C3_Result ==
    pc = "done" =>
        IF best_cost < DBL_MAX
        THEN /\ best_node # NULL
             /\ result.path = best_node.path
             /\ result.path[1] = start_idx
             /\ result.path[Len(result.path)] = end_idx
             /\ result.cost = best_cost
             /\ PathCost(cost_matrix, result.path) = result.cost
        ELSE result = NoSolution

\* a budget-terminated search returns a multi-edge path out of a best_path
\* array whose never-written cells hold the end vertex
C3_Witness ==
    /\ BudgetHit
    /\ best_cost < DBL_MAX
    /\ Len(result.path) >= 3
    /\ Len(result.path) < n_vertices
    /\ garbage = end_idx

NoIncoming ==
    \A v \in Vertices(n_vertices) \ {end_idx} : isinf(GETPTR2(cost_matrix, v, end_idx))

\* C4: when the end vertex has no incoming finite-cost edge and start differs
\* from end, best_cost is never lowered from its initial value and the result
\* is the empty path with the no-solution cost.
C4_Unreachable ==
    (NoIncoming /\ start_idx # end_idx)
    => /\ best_cost = DBL_MAX
       /\ pc = "done" => result = NoSolution

C4_Witness ==
    /\ NoIncoming /\ start_idx # end_idx
    /\ pc = "done"
    /\ iterations >= 3
    /\ result = NoSolution

\* C5: when start equals end the seed node passes the goal test at once: the
\* result is [start] with cost 0 and no child is ever pushed.
C5_StartIsEnd ==
    (start_idx = end_idx /\ pc # "call")
    => /\ pushed = 1
       /\ iterations <= 1
       /\ pc = "done" => result = [path |-> << start_idx >>, cost |-> 0]

C5_Witness ==
    /\ start_idx = end_idx /\ start_idx > 0
    /\ pc = "done"
    /\ result = [path |-> << start_idx >>, cost |-> 0]
    /\ iterations = 1

\* C8: best_cost never increases in a step, and it changes only when the
\* node popped in that step is a goal node with g strictly below it.
C8_Monotone ==
    [][ /\ best_cost' <= best_cost
        /\ best_cost' # best_cost =>
              /\ pc = "loop"
              /\ is_goal(current', end_idx)
              /\ current'.g_cost < best_cost
              /\ best_cost' = current'.g_cost ]_vars

\* the search goes on popping goal nodes after the bound was set
C8_Witness ==
    /\ pc = "loop"
    /\ best_cost < DBL_MAX
    /\ current # best_node
    /\ is_goal(current, end_idx)

ValidInput ==
    /\ Rows(cost_matrix) = n_vertices
    /\ Cols(cost_matrix) = n_vertices
    /\ start_idx \in Vertices(n_vertices)
    /\ end_idx \in Vertices(n_vertices)

\* C6: a call whose matrix is not n x n or whose start or end index is outside
\* 0..n-1 is rejected before any search work: nothing is allocated, no node is
\* pushed, the loop is never entered and no path/cost result is returned.
C6_InvalidInputRejected ==
    ~ValidInput =>
        /\ allocated = FALSE
        /\ pushed = 0
        /\ iterations = 0
        /\ pc \notin {"loop", "done", "undefined"}

\* C7: the result of a search that stopped on the iteration cap with a
\* non-empty open list differs from the result of every search that stopped
\* because its open list became empty (here: every search over the 4-vertex
\* matrices of the model).
C7_BudgetDistinguishable ==
    BudgetHit =>
        \A m \in Matrices4 : \A s, e \in Vertices(4) :
            LET other == solve_astar(m, 4, s, e, garbage)
            IN  other.open_size = 0 => other.result # result

\* C9: every element at index i > 0 of the heap has an f_cost greater than or
\* equal to that of its parent at index (i-1)/2.
C9_HeapInvariant ==
    \A i \in 1..(open_list.size - 1) :
        open_list.nodes[i + 1].f_cost >= open_list.nodes[((i - 1) \div 2) + 1].f_cost

\* a heap of four nodes with three different keys, after a capacity doubling
\* and at least one pop
C9_Witness ==
    /\ pc = "pq"
    /\ open_list.size >= 4
    /\ open_list.capacity > 2
    /\ Len(open_list.nodes) > open_list.size
    /\ Cardinality({x.f_cost : x \in Heap(open_list)}) = 3

\* C10: pop_node on a non-empty queue removes and returns a node whose f_cost
\* is at most that of every node that was in the queue; on an empty queue it
\* returns NULL and leaves the queue unchanged.
C10_PopMin ==
    [][ last_call' = "pop" =>
          IF open_list.size = 0
          THEN current' = NULL /\ open_list' = open_list
          ELSE /\ current' \in Heap(open_list)
               /\ \A x \in Heap(open_list) : current'.f_cost <= x.f_cost
               /\ open_list'.size = open_list.size - 1
               /\ Heap(open_list') = Heap(open_list) \ {current'} ]_vars

\* a pop has just taken the minimum out of a heap that held four nodes, two
\* of them with larger keys
C10_Witness ==
    /\ last_call = "pop"
    /\ current # NULL
    /\ open_list.size = 3
    /\ Cardinality({x \in Heap(open_list) : x.f_cost > current.f_cost}) >= 2

\* C11: every search node in the open list satisfies f_cost = g_cost + h_cost.
C11_FIsGPlusH ==
    pc = "loop" => \A x \in Heap(open_list) : x.f_cost = x.g_cost + x.h_cost

\* the estimate the specification describes for a node whose last vertex is c:
\* the cost of the edge c -> end when it exists, otherwise the minimum cost
\* over the edges from c to the other vertices (DBL_MAX when there is none)
DocumentedEstimate(cst, n, end, c) ==
    IF cst[c][end] # DBL_MAX THEN cst[c][end]
    ELSE Min({cst[c][v] : v \in Vertices(n) \ {c}} \cup {DBL_MAX})

\* C12: the heuristic estimate of a node whose last vertex is c is the cost of
\* the edge c -> end when that edge exists, otherwise the minimum cost over the
\* outgoing edges from c to the other vertices.
C12_Heuristic ==
    pc = "loop" =>
        \A x \in Heap(open_list) :
            x.h_cost = DocumentedEstimate(costs, n_vertices, end_idx, LastVertex(x))

\* the vertices a non-goal node can be extended by: not in its path, and with
\* a finite-cost edge from its last vertex in the caller's matrix
Extensions(node) ==
    {v \in Vertices(n_vertices) :
        /\ \A i \in 1..Len(node.path) : node.path[i] # v
        /\ ~isinf(GETPTR2(cost_matrix, LastVertex(node), v))}

\* an iteration of the main loop is taken
LoopStep == pc = "loop" /\ pc' = "loop"

\* C13: during an expansion a candidate child is pushed onto the open list if
\* and only if its f_cost is strictly less than best_cost at that moment;
\* nodes already queued are not removed by the bound.
C13_PruneAtPush ==
    [][ LoopStep =>
          /\ \A c \in created' \ created :
                (c \in Heap(open_list')) <=> (c.f_cost < best_cost)
          /\ Heap(open_list') \ (created' \ created) = Heap(open_list) \ {current'} ]_vars

\* after the bound was set, a queued node whose f_cost is not below the bound
\* is still in the open list
C13_Witness ==
    /\ pc = "loop"
    /\ best_cost < DBL_MAX
    /\ \E x \in Heap(open_list) : x.f_cost >= best_cost
    /\ \E c \in created : c \in Range(destroyed) /\ c.f_cost = best_cost /\ c # best_node
                             /\ ~is_goal(c, end_idx)

\* C14: expanding a goal node pushes no child and replaces best_cost and
\* best_path by the node's g and path only when g is strictly below best_cost;
\* expanding any other node leaves best_cost and best_path unchanged and
\* produces one candidate per vertex that is not in the node's path and has a
\* finite-cost edge from the node's last vertex.
C14_Expand ==
    [][ LoopStep =>
          IF LastVertex(current') = end_idx
          THEN /\ created' = created
               /\ pushed' = pushed
               /\ IF current'.g_cost < best_cost
                  THEN /\ best_cost' = current'.g_cost
                       /\ SubSeq(best_path', 1, current'.path_length) = current'.path
                  ELSE best_cost' = best_cost /\ best_path' = best_path
          ELSE /\ best_cost' = best_cost
               /\ best_path' = best_path
               /\ {LastVertex(c) : c \in created' \ created} = Extensions(current')
               /\ Cardinality(created' \ created) = Cardinality(Extensions(current')) ]_vars

\* a goal node was popped that did not improve on the bound, after a node with
\* two extensions had been expanded
C14_Witness ==
    /\ pc = "loop"
    /\ best_cost < DBL_MAX
    /\ Cardinality(created) >= 4
    /\ current # best_node
    /\ is_goal(current, end_idx)

\* C15: every node in the open list has a path that begins with the start
\* vertex and repeats no vertex (so its length is at most n), and a g_cost that
\* is the sum of the edge costs along the path; every child created by an
\* expansion has its parent's path extended by exactly one vertex.
C15_Paths ==
    [][ /\ \A x \in Heap(open_list') :
              /\ x.path_length = Len(x.path)
              /\ x.path[1] = start_idx
              /\ \A i, j \in 1..Len(x.path) : i # j => x.path[i] # x.path[j]
              /\ Len(x.path) <= n_vertices
              /\ x.g_cost = PathCost(cost_matrix, x.path)
        /\ LoopStep =>
              \A c \in created' \ created :
                  /\ c.path_length = current'.path_length + 1
                  /\ SubSeq(c.path, 1, current'.path_length) = current'.path ]_vars

\* the open list holds a node that visits every vertex of a 4-vertex graph and
\* has a positive cost
C15_Witness ==
    /\ pc = "loop"
    /\ \E x \in Heap(open_list) : x.path_length = 4 /\ x.g_cost >= 3

\* C16: every search run reaches its terminal state; the main loop stops as
\* soon as the open list is empty or the counter is at its maximum; the
\* counter grows by exactly one per popped node and never exceeds the maximum;
\* and run without the budget, the loop still empties the open list.
C16_Termination ==
    /\ (pc = "loop") ~> (pc = "done")
    /\ [][ pc = "loop" /\ (open_list.size = 0 \/ iterations = MAX_ITERATIONS)
             => pc' = "done" /\ iterations' = iterations /\ popped' = popped ]_vars
    /\ [][ popped' # popped <=> iterations' = iterations + 1 ]_vars
    /\ [][ popped' # popped => popped' = popped + 1 /\ current' = open_list.nodes[1] ]_vars
    /\ [](pc \in {"loop", "done"} => iterations <= MAX_ITERATIONS)
    /\ [](iterations = popped)
    /\ (pc = "loop_nb") ~> (pc = "loop_nb" /\ open_list.size = 0)

\* a run without the budget has emptied the open list after more iterations
\* than the budget allows
C16_Witness ==
    /\ pc = "loop_nb"
    /\ open_list.size = 0
    /\ iterations > MAX_ITERATIONS + 2
    /\ iterations < MaxSteps

\* C17: between the steps of a search every live node sits in exactly one
\* slot of the open list; every node created is destroyed exactly once (right
\* after its expansion, when it is pruned, or when the open list is freed at
\* the end), so that nothing is live once the search is done; and the node a
\* pop returns has not been destroyed before.
C17_Ownership ==
    /\ [](pc \in {"loop", "done"} =>
            /\ Cardinality(Range(destroyed)) = Len(destroyed)
            /\ Range(destroyed) \subseteq created)
    /\ [](pc = "loop" =>
            /\ created \ Range(destroyed) = Heap(open_list)
            /\ Cardinality(Heap(open_list)) = open_list.size)
    /\ [](pc = "done" => Range(destroyed) = created)
    /\ [][ popped' # popped =>
             /\ current' \in Heap(open_list)
             /\ current' \notin Range(destroyed)
             /\ current' \notin Heap(open_list')
             /\ destroyed'[Len(destroyed')] = current'
             /\ \A x \in created' \ created :
                    x \in Heap(open_list') \/ x \in Range(destroyed') ]_vars
    /\ [][ pc = "loop" /\ pc' = "done" =>
             Range(destroyed') \ Range(destroyed) = Heap(open_list) ]_vars

\* a finished search that destroyed nodes in all three ways: expanded ones,
\* pruned ones, and ones still queued when the loop ended
C17_Witness ==
    /\ pc = "done"
    /\ open_list.size > 0
    /\ popped > 0
    /\ Len(destroyed) > popped + open_list.size

\* C18: with non-negative edge costs, each node popped by the main loop has
\* an f_cost at least that of the node popped before it in the same search.
C18_PopOrder ==
    [][ LoopStep /\ popped >= 1 /\ popped' = popped + 1
          => current'.f_cost >= current.f_cost ]_vars

\* a pop of key 2 or more, after the start node and a node of a smaller key,
\* with nodes still queued
C18_Witness ==
    /\ pc = "loop"
    /\ popped >= 3
    /\ current.f_cost >= 2
    /\ open_list.size > 0
    /\ best_cost = DBL_MAX

\* C19: with non-negative edge costs, best_cost and best_path are written at
\* most once in a search, by the first goal node popped; from that iteration
\* on nothing is pushed, and every remaining iteration makes the open list
\* one node smaller.
C19_BestOnce ==
    /\ [][ LoopStep /\ best_cost < DBL_MAX =>
             /\ best_cost' = best_cost
             /\ best_path' = best_path
             /\ pushed' = pushed
             /\ open_list'.size = open_list.size - 1 ]_vars
    /\ [][ LoopStep /\ (best_cost' # best_cost \/ best_path' # best_path) =>
             /\ best_cost = DBL_MAX
             /\ is_goal(current', end_idx)
             /\ best_cost' = current'.g_cost
             /\ pushed' = pushed
             /\ open_list'.size = open_list.size - 1 ]_vars
    /\ [][ LoopStep /\ best_cost = DBL_MAX /\ is_goal(current', end_idx) =>
             best_cost' < DBL_MAX ]_vars

\* an iteration after the one that wrote best_cost, on a node that is not a
\* goal and whose candidates were all pruned, with nodes left in the open list
C19_Witness ==
    /\ pc = "loop"
    /\ best_cost < DBL_MAX
    /\ current # best_node
    /\ ~is_goal(current, end_idx)
    /\ Extensions(current) # {}
    /\ open_list.size > 0

\* C20: after any sequence of push_node and pop_node calls the nodes in
\* positions 0..size-1 are the nodes pushed less the nodes pop_node returned,
\* each once; size is the number of pushes less the number of successful
\* pops; 0 <= size <= capacity; and the capacity never shrinks: it doubles in
\* a push that finds size = capacity and is unchanged by every other call.
C20_Conservation ==
    /\ [](/\ Heap(open_list) = created \ Range(returned)
          /\ Cardinality(Heap(open_list)) = open_list.size
          /\ Range(returned) \subseteq created
          /\ Cardinality(Range(returned)) = Len(returned)
          /\ Len(returned) = popped
          /\ Cardinality(created) = pushed
          /\ open_list.size = pushed - popped
          /\ 0 <= open_list.size
          /\ open_list.size <= open_list.capacity)
    /\ [][ open_list'.capacity =
             IF last_call' = "push" /\ open_list.size = open_list.capacity
             THEN 2 * open_list.capacity ELSE open_list.capacity ]_vars
    /\ [][ last_call' = "pop" =>
             /\ open_list.size = 0 => current' = NULL /\ open_list' = open_list
             /\ open_list.size > 0 => current' \in Heap(open_list) ]_vars

\* the capacity has doubled twice, a pop of the empty queue has returned NULL,
\* and a pop has just taken a node out of a queue that still holds two
C20_Witness ==
    /\ pc = "pq"
    /\ last_call = "pop"
    /\ open_list.capacity >= 4
    /\ open_list.size >= 2
    /\ popped >= 1
    /\ calls > pushed + popped

====
